---- MODULE Spec2Model ----
(***************************************************************************)
(* Model of the AI review pipeline of src/dead_code.py (a Node.js script): *)
(* commit resolution and diff assembly, backend selection, response        *)
(* normalisation, snippet location, rendering and comment publishing; and  *)
(* of the word counter of src/example.py.                                  *)
(*                                                                         *)
(* Text is modelled as a sequence of one-character strings where the code  *)
(* works on characters (matchSnippetInFile), and as a sequence of tokens   *)
(* where it works on larger pieces (the AI response, the comment body).    *)
(***************************************************************************)
EXTENDS Integers, Sequences, FiniteSets, TLC

VARIABLES
    fs,        \* the working tree: path -> [kind, content]
    mIn,       \* matchSnippetInFile under test: [filePath, codeSnippet]
    mOut,      \* results of the calls made so far on mIn
    nIn,       \* the normaliser under test: the response text
    nOut,      \* its result, or Pending
    \* --- one run of the script
    pc,        \* the statement the run is at
    exitCode,  \* the process exit code, NoExit while it runs
    outcome,   \* how the run ended
    model,     \* process.env.AI_MODEL || 'gemini'
    credOk,    \* the credentials of the configured backend are set
    latestCommitSha, secondToLastCommitSha, thirdToLastCommitSha,
    commitDetails,
    diffForLatestCommit, diffForSecondToLastCommit,
    diff,      \* the concatenated diff block
    review,    \* the text the backend returned
    parsed,    \* the parsed JSON value
    issueIdx,  \* the issue the loop of reviewCode is at
    processed, \* the issues the loop is done with
    artifact,  \* what review_with_line_matches.json holds
    err,       \* the error the top-level catch of reviewCode caught
    postArg,   \* the text handed to postCommentToGitHubPR
    postSite,  \* the call of postCommentToGitHubPR the run is at
    net,       \* the network calls made so far, in order
    sinkCalls, \* calls of octokit.rest.issues.createComment
    comments,  \* the comments the pull request received
    pubEnv,    \* GITHUB_TOKEN, GITHUB_REPOSITORY, GITHUB_REF as the publisher read them
    stderr,    \* what console.warn and console.error wrote, in order
    execs,     \* the git commands execSync ran, in order
    \* --- one run of example.py
    argv,        \* sys.argv
    openRaises,  \* what open() or read() raises on the file, "none" if nothing
    xpc,         \* the statement main() is at
    filepath,    \* main's filepath
    fileContent, \* main's content, the value read_file returned
    printed,     \* the calls of print, in order
    opened,      \* the paths handed to open()
    raised,      \* the exception that left main(), "none" if none did
    status       \* the exit status, NoExit while the program runs

exVars == <<argv, openRaises, xpc, filepath, fileContent, printed, opened, raised, status>>
unitVars == <<mIn, mOut, nIn, nOut, exVars>>
ctlVars == <<pc, exitCode, outcome>>
cfgVars == <<model, credOk>>
gitVars == <<latestCommitSha, secondToLastCommitSha, thirdToLastCommitSha,
             commitDetails, diffForLatestCommit, diffForSecondToLastCommit, diff>>
revVars == <<review, parsed, issueIdx, processed, artifact, err, postArg, postSite>>
pubVars == <<net, sinkCalls, comments, pubEnv>>
ioVars == <<stderr, execs>>
runVars == <<ctlVars, cfgVars, gitVars, revVars, pubVars, ioVars>>
vars == <<fs, unitVars, runVars>>

\* ---------------------------------------------------------------- bounds
MaxFileLen == 5
MaxSnippetLen == 3
MaxCalls == 2
MaxRespLen == 4
MaxIssues == 2
MaxTextLen == 2

\* ------------------------------------------------------------- characters
Chars == {"a", " ", "\n"}

Strs(n) == UNION {[1..k -> Chars] : k \in 0..n}

\* String.prototype.trim's white space, as far as the alphabet has it.
IsWhiteSpace(c) == c \in {" ", "\n", "\t", "\r"}

RECURSIVE trimStart(_)
trimStart(s) ==
    IF s = <<>> THEN s
    ELSE IF IsWhiteSpace(Head(s)) THEN trimStart(Tail(s)) ELSE s

RECURSIVE trimEnd(_)
trimEnd(s) ==
    IF s = <<>> THEN s
    ELSE IF IsWhiteSpace(s[Len(s)]) THEN trimEnd(SubSeq(s, 1, Len(s) - 1)) ELSE s

\* A faulty trim: white space is removed everywhere, inside the line too.
RECURSIVE stripAll(_)
stripAll(s) ==
    IF s = <<>> THEN s
    ELSE IF IsWhiteSpace(Head(s)) THEN stripAll(Tail(s))
         ELSE <<Head(s)>> \o stripAll(Tail(s))

trim(s) == trimEnd(trimStart(s))

\* s.split('\n'): the pieces between line feeds; "" splits to [""].
RECURSIVE split(_)
split(s) ==
    IF \A k \in 1..Len(s) : s[k] # "\n" THEN <<s>>
    ELSE LET k == CHOOSE k \in 1..Len(s) :
                      s[k] = "\n" /\ \A m \in 1..(k - 1) : s[m] # "\n"
         IN <<SubSeq(s, 1, k - 1)>> \o split(SubSeq(s, k + 1, Len(s)))

\* lines.map(line => line.trim())
mapTrim(lines) == [k \in 1..Len(lines) |-> trim(lines[k])]

\* --------------------------------------------------------------- the tree
Missing == [kind |-> "missing", content |-> <<>>]
Directory == [kind |-> "dir", content |-> <<>>]
RegularFile(content) == [kind |-> "file", content |-> content]

existsSync(filePath) == filePath \in DOMAIN fs /\ fs[filePath].kind # "missing"

\* ------------------------------------------------------ matchSnippetInFile
Null == [kind |-> "null", start |-> 0, end |-> 0]
Range(s, e) == [kind |-> "range", start |-> s, end |-> e]
\* fs.readFileSync on a directory raises EISDIR.
Throws == [kind |-> "throw", start |-> 0, end |-> 0]

\* The inner loop over j: every trimmed file line of the window at offset i
\* (0-based) equals the snippet line at the same place.
windowMatched(lines, snippetLines, i) ==
    \A j \in 0..(Len(snippetLines) - 1) : trim(lines[i + j + 1]) = snippetLines[j + 1]

\* A faulty scan: the windows are tried from the last one down.
RECURSIVE scanDown(_, _, _)
scanDown(lines, snippetLines, i) ==
    LET top == Len(lines) - Len(snippetLines) IN
    IF i > top THEN Null
    ELSE IF windowMatched(lines, snippetLines, top - i)
         THEN Range(top - i + 1, top - i + Len(snippetLines))
         ELSE scanDown(lines, snippetLines, i + 1)

\* The outer loop: for (let i = 0; i <= lines.length - snippetLines.length; i++)
RECURSIVE scanWindows(_, _, _)
scanWindows(lines, snippetLines, i) ==
    IF i > Len(lines) - Len(snippetLines) THEN Null
    ELSE IF windowMatched(lines, snippetLines, i)
         THEN Range(i + 1, i + Len(snippetLines))
         ELSE scanWindows(lines, snippetLines, i + 1)

\* A faulty variant without the guards: the existence and blank-snippet checks are gone.
matchUnguarded(filePath, codeSnippet) ==
    IF filePath \in DOMAIN fs /\ fs[filePath].kind = "dir" THEN Throws
    ELSE LET content == IF filePath \in DOMAIN fs THEN fs[filePath].content ELSE <<>>
         IN scanWindows(split(content), mapTrim(split(trim(codeSnippet))), 0)

\* A faulty variant: the lines of the snippet are trimmed one by one, the
\* snippet as a whole is not.
matchUntrimmed(filePath, codeSnippet) ==
    IF ~existsSync(filePath) THEN Null
    ELSE IF codeSnippet = <<>> \/ trim(codeSnippet) = <<>> THEN Null
    ELSE IF fs[filePath].kind = "dir" THEN Throws
    ELSE scanWindows(split(fs[filePath].content), mapTrim(split(codeSnippet)), 0)

matchSnippetInFile(filePath, codeSnippet) ==
    IF ~existsSync(filePath) THEN Null
    ELSE IF codeSnippet = <<>> \/ trim(codeSnippet) = <<>> THEN Null
    ELSE IF fs[filePath].kind = "dir" THEN Throws
    ELSE LET lines == split(fs[filePath].content)
             snippetLines == mapTrim(split(trim(codeSnippet)))
         IN IF Len(snippetLines) = 0 THEN Null
            ELSE scanWindows(lines, snippetLines, 0)

\* JSON values: an object with its issues (an absent "issues" and an empty
\* one are treated alike by the code), and null.
Undefined == "<undefined>"
\* An issue of the response: its file, its code_snippet and its line, the
\* line number the AI declares (0 when the field is absent).
NoLine == 0
DeclaredIssue(file, snippet, line) == [file |-> file, code_snippet |-> snippet, line |-> line]
Issue(file, snippet) == DeclaredIssue(file, snippet, NoLine)
Object(issues) == [kind |-> "object", issues |-> issues]
JsonNull == [kind |-> "null", issues |-> <<>>]

\* ------------------------------------------------------ the AI response
\* The response is a sequence of tokens. A JSON value is one token (JSON.parse
\* takes it whole); the fence markers are the literal texts the regular
\* expression of the normaliser looks for; prose holds no back-tick and no
\* line feed.
NoValue == [kind |-> "none", issues |-> <<>>]
Tok(t) == [t |-> t, v |-> NoValue]
Json(v) == [t |-> "json", v |-> v]
\* The texts "three back-ticks, json, line feed" and "line feed, three
\* back-ticks"; a marker that lost its line feed to trim() is a plain token.
FenceOpen == Tok("[fence]json\n")
FenceClose == Tok("\n[fence]")
Prose == Tok("prose")
Space == Tok(" ")
Newlines == Tok("\n\n")
IsWhiteTok(t) == t \in {Space, Newlines}

\* text.trim() on tokens: spaces go; a line feed at an end goes too, which
\* leaves a fence marker at that end without it.
RECURSIVE trimTokStart(_)
trimTokStart(s) ==
    IF s = <<>> THEN s
    ELSE IF IsWhiteTok(Head(s)) THEN trimTokStart(Tail(s))
    ELSE IF Head(s) = FenceClose THEN <<Tok("[fence]")>> \o Tail(s)
    ELSE s

RECURSIVE trimTokEnd(_)
trimTokEnd(s) ==
    IF s = <<>> THEN s
    ELSE IF IsWhiteTok(s[Len(s)]) THEN trimTokEnd(SubSeq(s, 1, Len(s) - 1))
    ELSE IF s[Len(s)] = FenceOpen THEN SubSeq(s, 1, Len(s) - 1) \o <<Tok("[fence]json")>>
    ELSE s

trimTok(s) == trimTokEnd(trimTokStart(s))

\* res.data...text?.trim() || "No response from Gemini."
completionText(raw) ==
    IF trimTok(raw) = <<>> THEN <<Tok("No response.")>> ELSE trimTok(raw)

\* review.match(/```json\n([\s\S]*?)\n```/): the leftmost opening marker that
\* has a closing marker after it, and the nearest such closing marker.
jsonMatch(text) ==
    LET opens == {i \in 1..Len(text) :
                     text[i] = FenceOpen
                     /\ \E j \in (i + 1)..Len(text) : text[j] = FenceClose}
    IN IF opens = {} THEN [found |-> FALSE, group1 |-> <<>>]
       ELSE LET i == CHOOSE i \in opens : \A m \in opens : i <= m
                closes == {j \in (i + 1)..Len(text) : text[j] = FenceClose}
                j == CHOOSE j \in closes : \A m \in closes : j <= m
            IN [found |-> TRUE, group1 |-> SubSeq(text, i + 1, j - 1)]

\* JSON.parse(text): white space around one JSON value, and nothing else.
RECURSIVE dropSpaces(_)
dropSpaces(s) ==
    IF s = <<>> THEN s
    ELSE IF IsWhiteTok(Head(s)) THEN dropSpaces(Tail(s))
    ELSE <<Head(s)>> \o dropSpaces(Tail(s))

JSONparse(text) ==
    LET t == dropSpaces(text) IN
    IF Len(t) = 1 /\ t[1].t = "json" /\ \A k \in 1..Len(text) : IsWhiteTok(text[k]) \/ text[k] = t[1]
    THEN [ok |-> TRUE, value |-> t[1].v]
    ELSE [ok |-> FALSE, value |-> NoValue]

\* The body of the comment posted when the response does not parse.
ParseFailureHeader == Tok("### AI Review Failed to Parse JSON\n\n[fence]\n")
\* A faulty variant: the comment carries the fenced body, not the response.
parseFailureOfMatch(text) ==
    <<ParseFailureHeader>> \o jsonMatch(text).group1 \o <<FenceClose>>

parseFailureComment(text) ==
    <<ParseFailureHeader>> \o text \o <<FenceClose>>

Parsed(v) == [kind |-> "parsed", value |-> v, comment |-> <<>>]
ParseFailure(text) ==
    [kind |-> "ParseFailure", value |-> NoValue, comment |-> parseFailureComment(text)]

\* A faulty variant: the fenced strategy is gone, the response is parsed as it is.
parseBareOnly(text) ==
    IF JSONparse(text).ok THEN Parsed(JSONparse(text).value) ELSE ParseFailure(text)

\* reviewCode's try/catch around JSON.parse: the parsed value, or the comment
\* the catch posts before it returns.
parseReview(text) ==
    LET m == jsonMatch(text)
        json == IF m.found /\ m.group1 # <<>> THEN m.group1 ELSE text
    IN IF JSONparse(json).ok THEN Parsed(JSONparse(json).value) ELSE ParseFailure(text)

\* ------------------------------------------- matchSnippetInFile, on its own
Pending == [kind |-> "pending"]
TestPath == "f"

NoExit == -1
NoArtifact == [kind |-> "none", issues |-> <<>>]
NoEnv == [read |-> FALSE, token |-> FALSE, repo |-> FALSE, ref |-> <<>>]

\* The run before its first statement, the configuration apart.
RunStart ==
    /\ pc = "fetchBase"
    /\ exitCode = NoExit
    /\ outcome = "running"
    /\ latestCommitSha = ""
    /\ secondToLastCommitSha = ""
    /\ thirdToLastCommitSha = ""
    /\ commitDetails = <<>>
    /\ diffForLatestCommit = <<>>
    /\ diffForSecondToLastCommit = <<>>
    /\ diff = <<>>
    /\ review = <<>>
    /\ parsed = NoValue
    /\ issueIdx = 0
    /\ processed = <<>>
    /\ artifact = NoArtifact
    /\ err = "none"
    /\ postArg = <<>>
    /\ postSite = "none"
    /\ net = <<>>
    /\ sinkCalls = 0
    /\ comments = <<>>
    /\ pubEnv = NoEnv
    /\ stderr = <<>>
    /\ execs = <<>>

\* read_file's None, and a string it returns.
None == [none |-> TRUE, text |-> <<>>]
Str(text) == [none |-> FALSE, text |-> text]

\* example.py before main() is called, the command line and the file apart.
ExampleStart ==
    /\ xpc = "main"
    /\ filepath = ""
    /\ fileContent = None
    /\ printed = <<>>
    /\ opened = <<>>
    /\ raised = "none"
    /\ status = NoExit

\* The parts of the state a specification does not use stay as they are here.
ExampleIdle == ExampleStart /\ argv = <<>> /\ openRaises = "none"
RunIdle == RunStart /\ model = "gemini" /\ credOk = TRUE
NormIdle == nIn = <<>> /\ nOut = Pending
MatchIdle ==
    /\ fs = [p \in {TestPath} |-> Missing]
    /\ mIn = [filePath |-> TestPath, codeSnippet |-> <<>>]
    /\ mOut = <<>>

MatchInit ==
    /\ \E e \in {Missing, Directory} \cup {RegularFile(c) : c \in Strs(MaxFileLen)} :
           fs = [p \in {TestPath} |-> e]
    /\ \E s \in Strs(MaxSnippetLen) : mIn = [filePath |-> TestPath, codeSnippet |-> s]
    /\ mOut = <<>>
    /\ NormIdle
    /\ RunIdle
    /\ ExampleIdle

\* One call of matchSnippetInFile(filePath, codeSnippet); it reads the tree
\* and writes nothing.
MatchCall ==
    /\ Len(mOut) < MaxCalls
    /\ mOut' = Append(mOut, matchSnippetInFile(mIn.filePath, mIn.codeSnippet))
    /\ UNCHANGED <<fs, mIn, nIn, nOut, exVars, runVars>>

MatchNext == MatchCall

SpecMatch == MatchInit /\ [][MatchNext]_vars

\* --------------------------------------------- claims on matchSnippetInFile
\* What the claims speak of, stated without the code's loops.
TestFile == fs[TestPath]
FileLines == split(TestFile.content)
\* The snippet's lines once the snippet as a whole is trimmed.
SnippetRawLines == split(trim(mIn.codeSnippet))
IsBlank(s) == \A k \in 1..Len(s) : IsWhiteSpace(s[k])

\* A line without its leading and trailing white space, by positions: the
\* characters from the first to the last one that is not white space.
Core(l) ==
    IF IsBlank(l) THEN <<>>
    ELSE LET solid == {k \in 1..Len(l) : ~IsWhiteSpace(l[k])}
             lo == CHOOSE k \in solid : \A m \in solid : k <= m
             hi == CHOOSE k \in solid : \A m \in solid : k >= m
         IN SubSeq(l, lo, hi)

\* The 0-based offsets of the windows of the file that equal the snippet line
\* by line, white space at the ends of a line apart.
MatchingOffsets ==
    {i \in 0..(Len(FileLines) - Len(SnippetRawLines)) :
        \A j \in 1..Len(SnippetRawLines) :
            Core(FileLines[i + j]) = Core(SnippetRawLines[j])}

LowestOffset == CHOOSE i \in MatchingOffsets : \A m \in MatchingOffsets : i <= m

Locatable == TestFile.kind = "file" /\ ~IsBlank(mIn.codeSnippet)

\* C5: for an existing file and a non-blank snippet that occurs in it,
\* matchSnippetInFile returns the 1-based inclusive (start, end) of the
\* lowest-index window whose trimmed lines equal the trimmed snippet lines;
\* of several matching windows the earliest is returned.
C5_FirstWindow ==
    \A k \in 1..Len(mOut) :
        (Locatable /\ MatchingOffsets # {}) =>
            mOut[k] = Range(LowestOffset + 1, LowestOffset + Len(SnippetRawLines))

\* A call that returned a range on a file with two matching windows.
C5_Witness ==
    /\ Len(mOut) >= 1
    /\ Locatable
    /\ Cardinality(MatchingOffsets) >= 2
    /\ mOut[1].kind = "range"

\* C6: only white space at the ends of a line is ignored. Every line of a
\* returned window equals its snippet line up to leading and trailing white
\* space (so lines that differ inside never match), and a window whose lines
\* differ from the snippet's only in such white space is found.
C6_OnlyEndsIgnored ==
    \A k \in 1..Len(mOut) :
        /\ mOut[k].kind = "range" =>
               /\ mOut[k].end <= Len(FileLines)
               /\ mOut[k].end - mOut[k].start + 1 = Len(SnippetRawLines)
               /\ \A j \in 1..Len(SnippetRawLines) :
                      Core(FileLines[mOut[k].start + j - 1]) = Core(SnippetRawLines[j])
        /\ (Locatable /\ MatchingOffsets # {}) => mOut[k].kind = "range"

\* A match between a file line and a snippet line that are not the same text.
C6_Witness ==
    /\ Len(mOut) >= 1
    /\ mOut[1].kind = "range"
    /\ Len(SnippetRawLines) = 1
    /\ FileLines[mOut[1].start] # SnippetRawLines[1]

C22_RangeWithinFile ==
    \A k \in 1..Len(mOut) :
        mOut[k].kind = "range" =>
            /\ 1 <= mOut[k].start
            /\ mOut[k].start <= mOut[k].end
            /\ mOut[k].end <= Len(FileLines)
            /\ mOut[k].end - mOut[k].start + 1 = Len(SnippetRawLines)
            /\ ~IsBlank(SnippetRawLines[1])
            /\ ~IsBlank(SnippetRawLines[Len(SnippetRawLines)])

\* A snippet that starts with a blank line, found below a blank line of the
\* file: the range is the one line of the snippet's text.
C22_Witness ==
    /\ Len(mOut) >= 1
    /\ mOut[1].kind = "range"
    /\ Len(split(mIn.codeSnippet)) > Len(SnippetRawLines)
    /\ IsBlank(FileLines[1])
    /\ mOut[1].start = 2
    /\ mOut[1].end = 2

\* ------------------------------------------------ the normaliser, on its own
NormValues == {Object(<<>>), Object(<<Issue("a.py", <<"a">>)>>), JsonNull}
NormTokens == {FenceOpen, FenceClose, Prose, Space} \cup {Json(v) : v \in NormValues}
TokSeqs(n) == UNION {[1..k -> NormTokens] : k \in 0..n}

\* The response as the backend hands it over: trimmed, never empty.
NormInit ==
    /\ \E raw \in TokSeqs(MaxRespLen) : nIn = completionText(raw)
    /\ nOut = Pending
    /\ MatchIdle
    /\ RunIdle
    /\ ExampleIdle

NormParse ==
    /\ nOut = Pending
    /\ nOut' = parseReview(nIn)
    /\ UNCHANGED <<fs, mIn, mOut, nIn, exVars, runVars>>

NormNext == NormParse

SpecNormalize == NormInit /\ [][NormNext]_vars

\* JSON text, stated on the tokens: one JSON value, spaces around it.
IsJsonText(t) ==
    \E k \in 1..Len(t) :
        /\ t[k].t = "json"
        /\ \A m \in 1..Len(t) : m # k => t[m] = Space
ValueOf(t) == (CHOOSE tok \in {t[k] : k \in 1..Len(t)} : tok.t = "json").v

\* The bodies a fenced json block of the response can have: what stands
\* between an opening marker and a closing marker after it.
FencedBodies(text) ==
    {SubSeq(text, i + 1, j - 1) : i \in {i \in 1..Len(text) : text[i] = FenceOpen},
                                   j \in {j \in 1..Len(text) : text[j] = FenceClose}}
InvalidEitherWay(text) ==
    /\ ~IsJsonText(text)
    /\ \A b \in FencedBodies(text) : ~IsJsonText(b)

\* C3: a response that is valid JSON neither as a fenced json block nor as it
\* stands yields ParseFailure, and the comment built for it is the response,
\* unchanged, between the failure header and a closing fence; nothing is
\* parsed and nothing is thrown.
C3_MalformedIsParseFailure ==
    (nOut # Pending /\ InvalidEitherWay(nIn)) =>
        /\ nOut.kind = "ParseFailure"
        /\ nOut.value = NoValue
        /\ Len(nOut.comment) = Len(nIn) + 2
        /\ nOut.comment[1] = ParseFailureHeader
        /\ SubSeq(nOut.comment, 2, Len(nIn) + 1) = nIn

\* A malformed response that holds a fenced block, normalised.
C3_Witness ==
    /\ nOut # Pending
    /\ InvalidEitherWay(nIn)
    /\ jsonMatch(nIn).found
    /\ jsonMatch(nIn).group1 # <<>>
    /\ nOut.kind = "ParseFailure"

IsDocument(v) == v.kind = "object"

RunTree ==
    [p \in {".", "a.py", "gone.py"} |->
        IF p = "." THEN Directory
        ELSE IF p = "a.py" THEN RegularFile(<<" ", "a", "\n", "a", "a">>)
        ELSE Missing]

Models == {"azure", "gemini", "claude"}

RunInit ==
    /\ RunStart
    /\ model \in Models
    /\ credOk \in BOOLEAN
    /\ fs = RunTree
    /\ mIn = [filePath |-> TestPath, codeSnippet |-> <<>>]
    /\ mOut = <<>>
    /\ NormIdle
    /\ ExampleIdle

\* A line written by console.warn or console.error: its level, the source line
\* that writes it and what it is about.
Logged(level, line, what) == [level |-> level, line |-> line, what |-> what]
\* Line 128: the message of the outer catch.
GitFailureLogged == Logged("error", 128, "git")

\* process.exit(code)
Exit(code, how) ==
    /\ pc' = "exited"
    /\ exitCode' = code
    /\ outcome' = how

\* A faulty outer catch: the failure is logged and the process ends with 0.
GitFailureExitsClean == Exit(0, "git_failure") /\ stderr' = Append(stderr, GitFailureLogged)

\* The catch of the outer try (lines 127-130): exit code 1.
GitFailure == Exit(1, "git_failure") /\ stderr' = Append(stderr, GitFailureLogged)

\* Lines 28-29: the two fetches; a fetch that fails raises.
GitFetch ==
    /\ pc \in {"fetchBase", "fetchHead"}
    /\ net' = Append(net, "fetch")
    /\ execs' = Append(execs, "fetch")
    /\ \E ok \in BOOLEAN :
           IF ok
           THEN /\ pc' = IF pc = "fetchBase" THEN "fetchHead" ELSE "revParseHead"
                /\ UNCHANGED <<exitCode, outcome, stderr>>
           ELSE GitFailure
    /\ UNCHANGED <<fs, unitVars, cfgVars, gitVars, revVars, sinkCalls, comments, pubEnv>>

\* Line 32: git rev-parse HEAD.
RevParseHead ==
    /\ pc = "revParseHead"
    /\ execs' = Append(execs, "rev-parse HEAD")
    /\ \E ok \in BOOLEAN :
           IF ok
           THEN /\ latestCommitSha' = "c0"
                /\ pc' = "revParseHead1"
                /\ UNCHANGED <<exitCode, outcome, stderr>>
           ELSE GitFailure /\ UNCHANGED latestCommitSha
    /\ UNCHANGED <<fs, unitVars, cfgVars, secondToLastCommitSha, thirdToLastCommitSha,
                   commitDetails, diffForLatestCommit, diffForSecondToLastCommit, diff,
                   revVars, pubVars>>

\* Lines 36-41: git rev-parse HEAD~1; a failure is caught and leaves ''. The
\* code provides for an answer equal to HEAD's (line 63), so it is one of the
\* answers here.
RevParseHead1 ==
    /\ pc = "revParseHead1"
    /\ execs' = Append(execs, "rev-parse HEAD~1")
    /\ UNCHANGED stderr
    /\ \E out \in {"", "c0", "c1"} :
           /\ secondToLastCommitSha' = out
           /\ pc' = IF out # "" THEN "revParseHead2" ELSE "logLatest"
    /\ UNCHANGED <<fs, unitVars, exitCode, outcome, cfgVars, latestCommitSha,
                   thirdToLastCommitSha, commitDetails, diffForLatestCommit,
                   diffForSecondToLastCommit, diff, revVars, pubVars>>

\* Lines 43-49: git rev-parse HEAD~2, run when HEAD~1 resolved.
RevParseHead2 ==
    /\ pc = "revParseHead2"
    /\ execs' = Append(execs, "rev-parse HEAD~2")
    /\ UNCHANGED stderr
    /\ \E out \in {"", "c2"} : thirdToLastCommitSha' = out
    /\ pc' = "logLatest"
    /\ UNCHANGED <<fs, unitVars, exitCode, outcome, cfgVars, latestCommitSha,
                   secondToLastCommitSha, commitDetails, diffForLatestCommit,
                   diffForSecondToLastCommit, diff, revVars, pubVars>>

CommitRef(sha, isLatest) == [hash |-> sha, isLatest |-> isLatest]
\* A faulty test: HEAD~1 counts as a second commit whatever its hash.
secondIsSet == secondToLastCommitSha # ""

\* The test of lines 63 and 88.
secondIsDistinct == secondToLastCommitSha # "" /\ secondToLastCommitSha # latestCommitSha

\* Lines 54-60: git log -1 of the latest commit.
LogLatest ==
    /\ pc = "logLatest"
    /\ execs' = Append(execs, "log HEAD")
    /\ \E ok \in BOOLEAN :
           IF ok
           THEN /\ commitDetails' = Append(commitDetails, CommitRef(latestCommitSha, TRUE))
                /\ pc' = IF secondIsDistinct THEN "logSecond" ELSE "diffLatest"
                /\ UNCHANGED <<exitCode, outcome, stderr>>
           ELSE GitFailure /\ UNCHANGED commitDetails
    /\ UNCHANGED <<fs, unitVars, cfgVars, latestCommitSha, secondToLastCommitSha,
                   thirdToLastCommitSha, diffForLatestCommit, diffForSecondToLastCommit,
                   diff, revVars, pubVars>>

\* Lines 63-71: git log -1 of the second-to-last commit.
LogSecond ==
    /\ pc = "logSecond"
    /\ execs' = Append(execs, "log HEAD~1")
    /\ \E ok \in BOOLEAN :
           IF ok
           THEN /\ commitDetails' = Append(commitDetails, CommitRef(secondToLastCommitSha, FALSE))
                /\ pc' = "diffLatest"
                /\ UNCHANGED <<exitCode, outcome, stderr>>
           ELSE GitFailure /\ UNCHANGED commitDetails
    /\ UNCHANGED <<fs, unitVars, cfgVars, latestCommitSha, secondToLastCommitSha,
                   thirdToLastCommitSha, diffForLatestCommit, diffForSecondToLastCommit,
                   diff, revVars, pubVars>>

\* What git diff prints: nothing, white space only, or changed lines. A diff
\* that fails is caught, logged as a warning, and leaves ''.
DiffOutputs == {<<>>, <<Space>>, <<Tok("+line")>>}
DiffResults == {[ok |-> TRUE, out |-> o] : o \in DiffOutputs} \cup {[ok |-> FALSE, out |-> <<>>]}

\* Lines 78-85: the diff of the latest commit against its parent.
DiffLatest ==
    /\ pc = "diffLatest"
    /\ execs' = Append(execs, "diff HEAD")
    /\ \E res \in DiffResults :
           /\ diffForLatestCommit' = res.out
           /\ stderr' = IF res.ok THEN stderr
                         ELSE Append(stderr, Logged("warn", 84, "diff_latest_failed"))
    /\ pc' = IF secondIsDistinct THEN "diffSecond" ELSE "assemble"
    /\ UNCHANGED <<fs, unitVars, exitCode, outcome, cfgVars, latestCommitSha,
                   secondToLastCommitSha, thirdToLastCommitSha, commitDetails,
                   diffForSecondToLastCommit, diff, revVars, pubVars>>

\* A faulty test: the second-to-last commit is taken to have a parent.
parentAssumed == TRUE

\* Line 91: if (thirdToLastCommitSha)
secondHasParent == thirdToLastCommitSha # ""

\* Lines 87-99: the diff of the second-to-last commit, run only when HEAD~2
\* resolved.
DiffSecond ==
    /\ pc = "diffSecond"
    /\ IF secondHasParent
       THEN /\ execs' = Append(execs, "diff HEAD~1")
            /\ \E res \in DiffResults :
                   /\ diffForSecondToLastCommit' = res.out
                   /\ stderr' = IF res.ok THEN stderr
                                 ELSE Append(stderr, Logged("warn", 97, "diff_second_failed"))
       ELSE /\ stderr' = Append(stderr, Logged("warn", 94, "skip_second_diff"))
            /\ UNCHANGED <<diffForSecondToLastCommit, execs>>
    /\ pc' = "assemble"
    /\ UNCHANGED <<fs, unitVars, exitCode, outcome, cfgVars, latestCommitSha,
                   secondToLastCommitSha, thirdToLastCommitSha, commitDetails,
                   diffForLatestCommit, diff, revVars, pubVars>>

\* Lines 102-116: the concatenated block, a header before each diff there is.
Header(which, c) == [t |-> which, v |-> [kind |-> "commit", issues |-> <<c>>]]
concatDiffs ==
    (IF diffForLatestCommit # <<>>
     THEN <<Header("latest", commitDetails[1])>> \o diffForLatestCommit \o <<Newlines>>
     ELSE <<>>)
    \o
    (IF Len(commitDetails) > 1 /\ diffForSecondToLastCommit # <<>>
     THEN <<Header("second", commitDetails[2])>> \o diffForSecondToLastCommit \o <<Newlines>>
     ELSE <<>>)

\* A faulty variant of the test of line 119: the run goes on whatever the block holds.
neverNothing(d) == FALSE

\* Line 119: !diff.trim()
nothingToReview(d) == trimTok(d) = <<>>

\* Lines 102-125: concatenate, and exit with 0 when there is nothing to
\* review. The block's own names end here.
Assemble ==
    /\ pc = "assemble"
    /\ diff' = concatDiffs
    /\ IF nothingToReview(concatDiffs)
       THEN Exit(0, "nothing_to_review")
       ELSE pc' = "selectModel" /\ UNCHANGED <<exitCode, outcome>>
    /\ latestCommitSha' = ""
    /\ secondToLastCommitSha' = ""
    /\ thirdToLastCommitSha' = ""
    /\ diffForLatestCommit' = <<>>
    /\ diffForSecondToLastCommit' = <<>>
    /\ UNCHANGED <<fs, unitVars, cfgVars, commitDetails, revVars, pubVars, ioVars>>

\* ------------------------------------------------------------- reviewCode
\* The issues a response can report: a file field that is absent, names the
\* source file or names no file; a snippet that occurs in the source file,
\* one that does not (it differs inside the line), or none.
IssueFiles == {Undefined, "a.py", "gone.py"}
IssueSnippets == {<<"a">>, <<"a", " ", "a">>, <<>>}
\* The line the AI declares where it declares one: not the line of the
\* source file the snippet stands on.
DeclaredLine == 2
IssueSet ==
    {Issue(f, c) : f \in IssueFiles, c \in IssueSnippets}
    \cup {DeclaredIssue(f, c, DeclaredLine) : f \in {"a.py"}, c \in {<<"a">>, <<"a", " ", "a">>}}
IssueSeqs(n) == UNION {[1..k -> IssueSet] : k \in 0..n}
RunValues == {JsonNull} \cup {Object(is) : is \in IssueSeqs(MaxIssues)}

\* What the provider answers: a JSON value, bare or (for the values the
\* normaliser is checked on) fenced, or no JSON.
RunRaws ==
    {<<Json(v)>> : v \in RunValues}
    \cup {<<FenceOpen, Json(v), FenceClose>> : v \in NormValues}
    \cup {<<>>, <<Prose>>, <<FenceOpen, Prose, FenceClose>>, <<Prose, Json(Object(<<>>))>>}

\* A faulty selection: an unknown AI_MODEL falls back to Gemini.
backendOrDefault(m) == IF m = "azure" THEN "azure" ELSE "gemini"

\* Lines 293-299: the if / else if / else on model.
backendFor(m) ==
    IF m = "azure" THEN "azure" ELSE IF m = "gemini" THEN "gemini" ELSE "unsupported"

\* axios.post of the backend named `kind`, and what it returns. Neither
\* function tests its key before the call: with the key unset (credOk FALSE)
\* the request is sent all the same and the provider refuses it; a request
\* with the key succeeds or fails.
CallBackend(kind) ==
    /\ pc = "selectModel"
    /\ backendFor(model) = kind
    /\ net' = Append(net, "ai")
    /\ \E res \in {[ok |-> FALSE, text |-> <<>>]}
                  \cup (IF credOk THEN {[ok |-> TRUE, text |-> r] : r \in RunRaws} ELSE {}) :
           IF res.ok
           THEN /\ review' = completionText(res.text)
                /\ pc' = "parse"
                /\ UNCHANGED err
           ELSE /\ pc' = "catch"
                /\ err' = "transport"
                /\ UNCHANGED review
    /\ UNCHANGED <<fs, unitVars, exitCode, outcome, cfgVars, gitVars, parsed, issueIdx,
                   processed, artifact, postArg, postSite, sinkCalls, comments, pubEnv,
                   ioVars>>

\* Lines 171-191.
runWithAzureOpenAI == CallBackend("azure")

\* Lines 193-217.
runWithGemini == CallBackend("gemini")

\* Line 298: throw new Error(`Unsupported AI_MODEL ...`).
UnsupportedModel ==
    /\ pc = "selectModel"
    /\ backendFor(model) = "unsupported"
    /\ pc' = "catch"
    /\ err' = "unsupported_model"
    /\ UNCHANGED <<fs, unitVars, exitCode, outcome, cfgVars, gitVars, review, parsed,
                   issueIdx, processed, artifact, postArg, postSite, pubVars, ioVars>>

\* Lines 304-318: parse; a response that does not parse is posted as it is
\* and reviewCode returns.
ParseResponse ==
    /\ pc = "parse"
    /\ LET r == parseReview(review) IN
           IF r.kind = "ParseFailure"
           THEN /\ postArg' = r.comment
                /\ postSite' = "parse_fail"
                /\ pc' = "post"
                /\ stderr' = Append(stderr, Logged("error", 315, "parse"))
                /\ UNCHANGED <<parsed, issueIdx>>
           ELSE /\ parsed' = r.value
                /\ issueIdx' = 1
                /\ pc' = "issues"
                /\ UNCHANGED <<postArg, postSite, stderr>>
    /\ UNCHANGED <<fs, unitVars, exitCode, outcome, cfgVars, gitVars, review, processed,
                   artifact, err, pubVars, execs>>

\* String(x || '')
stringOrEmpty(x) == IF x = Undefined THEN "" ELSE x
\* path.resolve(process.cwd(), file)
resolve(file) == IF file = "" THEN "." ELSE file

\* Lines 323-336 for one issue: the issue as the loop leaves it.
located(issue) ==
    [file |-> stringOrEmpty(issue.file),
     code_snippet |-> issue.code_snippet,
     line |-> issue.line,
     matched_line_range |-> matchSnippetInFile(resolve(stringOrEmpty(issue.file)),
                                               issue.code_snippet)]

\* A faulty end of the loop: it is left after its first turn.
loopLeftEarly(issues, idx) == idx > Len(issues) \/ idx > 1

\* Line 321: the for ... of loop is over when every issue had its turn.
loopDone(issues, idx) == idx > Len(issues)

\* Lines 321-337: one turn of the loop over parsed.issues. Reading .issues of
\* null raises, and so does matchSnippetInFile when readFileSync does; an
\* issue that is not located is logged as a warning (line 333).
IssueLoop ==
    /\ pc = "issues"
    /\ IF parsed.kind = "null"
       THEN /\ pc' = "catch"
            /\ err' = "TypeError"
            /\ UNCHANGED <<issueIdx, processed, stderr>>
       ELSE IF loopDone(parsed.issues, issueIdx)
       THEN /\ pc' = "save"
            /\ UNCHANGED <<issueIdx, processed, err, stderr>>
       ELSE IF located(parsed.issues[issueIdx]).matched_line_range = Throws
       THEN /\ pc' = "catch"
            /\ err' = "EISDIR"
            /\ UNCHANGED <<issueIdx, processed, stderr>>
       ELSE /\ processed' = Append(processed, located(parsed.issues[issueIdx]))
            /\ issueIdx' = issueIdx + 1
            /\ stderr' = IF located(parsed.issues[issueIdx]).matched_line_range = Null
                          THEN Append(stderr, Logged("warn", 333, "no_match"))
                          ELSE stderr
            /\ UNCHANGED <<pc, err>>
    /\ UNCHANGED <<fs, unitVars, exitCode, outcome, cfgVars, gitVars, review, parsed,
                   artifact, postArg, postSite, pubVars, execs>>

\* Lines 339-341: fs.writeFileSync of the review with its matched ranges; a
\* write that fails raises.
SaveArtifact ==
    /\ pc = "save"
    /\ \E ok \in BOOLEAN :
           IF ok
           THEN /\ artifact' = Object(processed)
                /\ pc' = "render"
                /\ UNCHANGED err
           ELSE /\ pc' = "catch"
                /\ err' = "write"
                /\ UNCHANGED artifact
    /\ UNCHANGED <<fs, unitVars, exitCode, outcome, cfgVars, gitVars, review, parsed,
                   issueIdx, processed, postArg, postSite, pubVars, ioVars>>

\* A number in a template literal: its decimal digits (line numbers of the
\* files of the model have one).
decimal(n) == <<<<"0", "1", "2", "3", "4", "5", "6", "7", "8", "9">>[n + 1]>>

\* Line 329: `${result.start}-${result.end}`
rangeText(result) == decimal(result.start) \o <<"-">> \o decimal(result.end)

\* s.split(sep), sep one character.
RECURSIVE splitOn(_, _)
splitOn(s, sep) ==
    IF \A k \in 1..Len(s) : s[k] # sep THEN <<s>>
    ELSE LET k == CHOOSE k \in 1..Len(s) :
                      s[k] = sep /\ \A m \in 1..(k - 1) : s[m] # sep
         IN <<SubSeq(s, 1, k - 1)>> \o splitOn(SubSeq(s, k + 1, Len(s)), sep)

\* A faulty file reference: an issue without a matched range gets the line
\* the AI declared.
fileLinkOrDeclared(issue) ==
    IF issue.matched_line_range.kind = "range"
    THEN [file |-> issue.file,
          L |-> <<decimal(issue.matched_line_range.start),
                  decimal(issue.matched_line_range.end)>>]
    ELSE IF issue.line # NoLine
    THEN [file |-> issue.file, L |-> <<decimal(issue.line), decimal(issue.line)>>]
    ELSE [file |-> issue.file, L |-> <<>>]

\* Lines 364-366: the file reference of an issue, `${file}#L${a}-L${b}` with
\* a and b the two parts of the range text, or the file alone. L holds a and b.
fileLink(issue) ==
    IF issue.matched_line_range.kind = "range"
    THEN [file |-> issue.file,
          L |-> <<splitOn(rangeText(issue.matched_line_range), "-")[1],
                  splitOn(rangeText(issue.matched_line_range), "-")[2]>>]
    ELSE [file |-> issue.file, L |-> <<>>]

\* Lines 369-380: the block of one issue.
issueBlock(issue) ==
    [t |-> "details",
     v |-> [kind |-> "issue", issues |-> <<fileLink(issue), issue.code_snippet>>]]

\* Lines 344-386: the rendered review.
commentBody ==
    <<Tok("### AI Code Review (Last 2 Commits)")>>
    \o (IF Len(processed) > 0
        THEN <<Tok("**Identified Issues:**")>>
             \o [k \in 1..Len(processed) |-> issueBlock(processed[k])]
        ELSE <<Tok("**No specific issues identified in these commits. Great job!**")>>)
    \o <<Tok("footer"), Tok(model)>>

\* Lines 343-388: render the review and hand it to the publisher. Rendering
\* raises a TypeError on a document whose positive_aspects is a non-empty
\* string (line 351, no forEach) or whose commit_hash_related is not a string
\* (line 367, no substring); these fields are not kept in the model, so
\* whether the document is such a one is chosen here.
Render ==
    /\ pc = "render"
    /\ \E ok \in BOOLEAN :
           IF ok
           THEN /\ postArg' = commentBody
                /\ postSite' = "review"
                /\ pc' = "post"
                /\ UNCHANGED err
           ELSE /\ pc' = "catch"
                /\ err' = "render"
                /\ UNCHANGED <<postArg, postSite>>
    /\ UNCHANGED <<fs, unitVars, exitCode, outcome, cfgVars, gitVars, review, parsed,
                   issueIdx, processed, artifact, pubVars, ioVars>>

\* Lines 390-394: the top-level catch hands an error text to the publisher.
errorComment(e) == <<Tok("### AI Code Review Error"), Tok(e)>>

\* A run without the try of line 290: what is raised ends the process.
Uncaught ==
    /\ pc = "catch"
    /\ Exit(1, "crashed")
    /\ stderr' = Append(stderr, Logged("error", 0, err))
    /\ UNCHANGED <<fs, unitVars, cfgVars, gitVars, revVars, pubVars, execs>>

Catch ==
    /\ pc = "catch"
    /\ stderr' = Append(stderr, Logged("error", 391, err))
    /\ postArg' = errorComment(err)
    /\ postSite' = "error"
    /\ pc' = "post"
    /\ UNCHANGED <<fs, unitVars, exitCode, outcome, cfgVars, gitVars, review, parsed,
                   issueIdx, processed, artifact, err, pubVars, execs>>

\* ---------------------------------------------------- postCommentToGitHubPR
\* GITHUB_REF by its segments; '' is an unset variable.
Refs == {<<>>, <<"refs", "heads", "main">>, <<"refs", "pull", "7", "merge">>}
PubEnvs == [read : {TRUE}, token : BOOLEAN, repo : BOOLEAN, ref : Refs]
Digits == {"7"}

\* A faulty extraction: every ref that is set is taken for a pull request.
prNumberOfAnyRef(ref) == IF ref = <<>> THEN "" ELSE "7"

\* ref.match(/refs\/pull\/(\d+)\/merge/)?.[1]
prNumber(ref) ==
    LET at == {i \in 1..(Len(ref) - 3) :
                  /\ ref[i] = "refs"
                  /\ ref[i + 1] = "pull"
                  /\ ref[i + 2] \in Digits
                  /\ ref[i + 3] = "merge"}
    IN IF at = {} THEN "" ELSE ref[(CHOOSE i \in at : \A m \in at : i <= m) + 2]

Published(call, accepted, threw) == [call |-> call, accepted |-> accepted, threw |-> threw]

\* A faulty publisher: a post the sink rejects is raised to the caller.
postAndRethrow(env, sinkOk) ==
    IF ~env.token THEN Published(FALSE, FALSE, FALSE)
    ELSE IF ~env.repo \/ env.ref = <<>> THEN Published(FALSE, FALSE, FALSE)
    ELSE IF prNumber(env.ref) = "" THEN Published(FALSE, FALSE, FALSE)
    ELSE Published(TRUE, sinkOk, ~sinkOk)

\* A faulty publisher: the error of a missing token leaves the function.
postThrowsWithoutToken(env, sinkOk) ==
    IF ~env.token THEN Published(FALSE, FALSE, TRUE)
    ELSE IF ~env.repo \/ env.ref = <<>> THEN Published(FALSE, FALSE, FALSE)
    ELSE IF prNumber(env.ref) = "" THEN Published(FALSE, FALSE, FALSE)
    ELSE Published(TRUE, sinkOk, FALSE)

\* Lines 255-286: whether createComment is called, whether the sink took the
\* comment, and whether anything is raised to the caller (the catch of line
\* 283 logs every error).
postCommentToGitHubPR(env, sinkOk) ==
    IF ~env.token THEN Published(FALSE, FALSE, FALSE)
    ELSE IF ~env.repo \/ env.ref = <<>> THEN Published(FALSE, FALSE, FALSE)
    ELSE IF prNumber(env.ref) = "" THEN Published(FALSE, FALSE, FALSE)
    ELSE Published(TRUE, sinkOk, FALSE)

\* What the publisher writes to the console: the warning of line 271, or the
\* error of line 284 with the message of what was raised; a comment that was
\* posted is reported by console.log only.
publisherLogs(env, sinkOk) ==
    IF ~env.token THEN <<Logged("error", 284, "no_token")>>
    ELSE IF ~env.repo \/ env.ref = <<>> THEN <<Logged("error", 284, "no_repo_or_ref")>>
    ELSE IF prNumber(env.ref) = "" THEN <<Logged("warn", 271, "no_pr_number")>>
    ELSE IF ~sinkOk THEN <<Logged("error", 284, "sink")>>
    ELSE <<>>

\* The environment as far as the publisher reads it: without a token it
\* throws at line 258, before it reads the repository and the ref.
readBy(env) == IF env.token THEN env ELSE [env EXCEPT !.repo = FALSE, !.ref = <<>>]

EndOf(site) ==
    IF site = "parse_fail" THEN "parse_failure"
    ELSE IF site = "review" THEN "reviewed" ELSE "error"

\* await postCommentToGitHubPR(postArg), at lines 316, 388 and 393, and what
\* follows it: reviewCode returns and the process ends with code 0. An error
\* raised at 316 or 388 would reach the catch of line 390, one raised at 393
\* would leave reviewCode.
Post ==
    /\ pc = "post"
    /\ \E env \in PubEnvs, sinkOk \in BOOLEAN :
           LET r == postCommentToGitHubPR(env, sinkOk) IN
           /\ env = readBy(env)
           /\ pubEnv.read => env = pubEnv
           /\ pubEnv' = env
           /\ stderr' = stderr \o publisherLogs(env, sinkOk)
           /\ sinkCalls' = IF r.call THEN sinkCalls + 1 ELSE sinkCalls
           /\ net' = IF r.call THEN Append(net, "comment") ELSE net
           /\ comments' = IF r.accepted THEN Append(comments, postArg) ELSE comments
           /\ IF ~r.threw
              THEN Exit(0, EndOf(postSite)) /\ UNCHANGED err
              ELSE IF postSite # "error"
              THEN /\ pc' = "catch"
                   /\ err' = "publish"
                   /\ UNCHANGED <<exitCode, outcome>>
              ELSE Exit(1, "crashed") /\ UNCHANGED err
    /\ UNCHANGED <<fs, unitVars, cfgVars, gitVars, review, parsed, issueIdx, processed,
                   artifact, postArg, postSite, execs>>

Next ==
    \/ GitFetch
    \/ RevParseHead
    \/ RevParseHead1
    \/ RevParseHead2
    \/ LogLatest
    \/ LogSecond
    \/ DiffLatest
    \/ DiffSecond
    \/ Assemble
    \/ runWithAzureOpenAI
    \/ runWithGemini
    \/ UnsupportedModel
    \/ ParseResponse
    \/ IssueLoop
    \/ SaveArtifact
    \/ Render
    \/ Catch
    \/ Post

Spec == RunInit /\ [][Next]_vars

\* ------------------------------------------------------ claims on the run
Calls(kind) == {k \in 1..Len(net) : net[k] = kind}
GitPcs == {"fetchBase", "fetchHead", "revParseHead", "revParseHead1", "revParseHead2",
           "logLatest", "logSecond", "diffLatest", "diffSecond", "assemble"}
\* The concatenated block has been built.
Assembled == pc \notin GitPcs /\ outcome # "git_failure"
PastAssembly == Assembled /\ outcome # "nothing_to_review"
IsBlankText(d) == \A k \in 1..Len(d) : IsWhiteTok(d[k])
Ended == pc = "exited"

\* C1: a run whose concatenated diff block is empty or white space only ends
\* at once with exit code 0: no request to the AI backend, no comment, no
\* call of the comment sink, no artifact.
C1_EmptyDiffExitsClean ==
    (Assembled /\ IsBlankText(diff)) =>
        /\ Ended
        /\ exitCode = 0
        /\ Calls("ai") = {}
        /\ Calls("comment") = {}
        /\ sinkCalls = 0
        /\ comments = <<>>
        /\ artifact = NoArtifact

\* Two commits in scope, neither with a diff: the run has ended.
C1_Witness ==
    /\ Ended
    /\ Assembled
    /\ IsBlankText(diff)
    /\ Len(commitDetails) = 2
    /\ exitCode = 0

\* The publisher found a token, a repository and a pull-request number.
EnvComplete ==
    /\ pubEnv.read
    /\ pubEnv.token
    /\ pubEnv.repo
    /\ \E i \in 1..(Len(pubEnv.ref) - 3) :
           pubEnv.ref[i] = "refs" /\ pubEnv.ref[i + 1] = "pull" /\ pubEnv.ref[i + 3] = "merge"

\* C2 as stated: a run past diff assembly with token, repository and
\* pull-request number leaves exactly one comment on the pull request.
C2_ExactlyOneComment ==
    (Ended /\ PastAssembly /\ EnvComplete) => Len(comments) = 1

\* C2, amended: such a run calls the comment sink exactly once, on every path
\* (review, parse failure, error), and the pull request receives the text
\* handed to the publisher if the sink accepts it and nothing if it does not;
\* no run calls the sink twice or leaves two comments.
C2_OnePostAttempt ==
    /\ sinkCalls <= 1
    /\ Len(comments) <= 1
    /\ (Ended /\ PastAssembly) => pubEnv.read
    /\ (Ended /\ PastAssembly /\ EnvComplete) =>
           /\ sinkCalls = 1
           /\ comments \in {<<>>, <<postArg>>}
           /\ postSite \in {"review", "parse_fail", "error"}

\* A rendered review, posted once.
C2_Witness ==
    /\ Ended
    /\ EnvComplete
    /\ outcome = "reviewed"
    /\ sinkCalls = 1
    /\ comments = <<postArg>>

\* C8 as stated: once a review is parsed, a snippet that cannot be located
\* (the issue's file field absent, empty or not a readable regular file
\* included) is a null range on that issue only: every issue is processed
\* and the rendered review is what the publisher gets. (A failed write of
\* the artifact and a failed rendering are other matters and are left out.)
C8_LocateFailureIsPerIssue ==
    (Ended /\ parsed.kind = "object" /\ err \notin {"write", "render"}) =>
        /\ Len(processed) = Len(parsed.issues)
        /\ \A k \in 1..Len(processed) : processed[k].matched_line_range.kind \in {"null", "range"}
        /\ postSite = "review"

Recognized == {"azure", "gemini"}

C10_NoRequestWithoutCredential ==
    (model \in Recognized /\ ~credOk) => Calls("ai") = {}

\* The errors raised inside reviewCode: by the backend call, by the selection
\* of the backend, by the loop over the issues (normalisation and snippet
\* location), by the write of the artifact, by rendering.
RaisedErrors == {"transport", "unsupported_model", "TypeError", "EISDIR", "write", "render"}
Raised == err # "none"

\* C11: every exception raised in reviewCode after diff assembly reaches the
\* catch of line 390: it is logged there, an error comment naming it is handed
\* to the publisher, which posts it if it can, and the run ends with exit code
\* 0; no run ends by an exception that left reviewCode. (A response that is
\* not JSON is the normaliser's ParseFailure result, handled at line 314.)
C11_ErrorsReachTopLevelCatch ==
    /\ outcome # "crashed"
    /\ Raised =>
           /\ err \in RaisedErrors
           /\ PastAssembly
           /\ pc \in {"catch", "post", "exited"}
           /\ pc # "catch" =>
                  /\ postSite = "error"
                  /\ postArg = errorComment(err)
                  /\ \E k \in 1..Len(stderr) : stderr[k] = Logged("error", 391, err)
    /\ (Ended /\ Raised) =>
           /\ exitCode = 0
           /\ outcome = "error"
           /\ comments \in {<<>>, <<errorComment(err)>>}
           /\ EnvComplete => sinkCalls = 1
           /\ (EnvComplete /\ \A k \in 1..Len(stderr) : stderr[k].line # 284) =>
                  comments = <<errorComment(err)>>

\* A rendering error, posted as an error comment.
C11_Witness ==
    /\ Ended
    /\ err = "render"
    /\ artifact # NoArtifact
    /\ comments = <<errorComment("render")>>
    /\ exitCode = 0

\* The stages of a run, by what each leaves behind.
AICallIssued == Calls("ai") # {}
AICallReturned == review # <<>>
MatchingStarted == pc = "issues" \/ processed # <<>>
RenderingStarted == pc = "render" \/ postSite = "review"
RenderingDone == postSite = "review"
CommentPosted == Calls("comment") # {}

\* C12: the stages of a run follow one another in a fixed order and never
\* overlap. The AI request is sent only once the diff block is assembled (the
\* fetches are the only earlier network calls); snippet matching works only on
\* the document parsed from a response that has returned; rendering starts
\* only when every issue has had its turn in the loop, and the artifact is
\* written in between; a comment is posted only after the text handed to the
\* publisher is complete, and nothing runs after it.
C12_StagesInOrder ==
    /\ AICallIssued =>
           /\ Assembled
           /\ ~IsBlankText(diff)
           /\ Cardinality(Calls("ai")) = 1
           /\ \A i \in Calls("fetch"), j \in Calls("ai") : i < j
    /\ AICallReturned => AICallIssued /\ pc # "selectModel"
    /\ MatchingStarted =>
           /\ AICallReturned
           /\ parsed # NoValue
           /\ Len(processed) <= Len(parsed.issues)
           /\ pc = "issues" => (parsed.kind = "object" => Len(processed) = issueIdx - 1)
    /\ (pc = "save" \/ artifact # NoArtifact \/ RenderingStarted) =>
           /\ parsed.kind = "object"
           /\ Len(processed) = Len(parsed.issues)
    /\ RenderingStarted => artifact = Object(processed)
    /\ RenderingDone => postArg = commentBody /\ pc \in {"post", "exited"}
    /\ CommentPosted =>
           /\ Ended
           /\ postSite # "none"
           /\ Cardinality(Calls("comment")) = 1
           /\ \A i \in Calls("ai"), j \in Calls("comment") : i < j
           /\ \A i \in Calls("fetch"), j \in Calls("comment") : i < j

\* A review of two issues went through every stage.
C12_Witness ==
    /\ Ended
    /\ outcome = "reviewed"
    /\ Len(parsed.issues) = 2
    /\ Len(processed) = 2
    /\ net = <<"fetch", "fetch", "ai", "comment">>
    /\ comments = <<commentBody>>

\* The ref holds refs/pull/<number>/merge.
IsPullRef(ref) ==
    \E i \in 1..(Len(ref) - 3) :
        ref[i] = "refs" /\ ref[i + 1] = "pull" /\ ref[i + 2] \in Digits /\ ref[i + 3] = "merge"
\* The publisher has run, with a ref that is set and names no pull request.
PublishedOffPullRequest == Ended /\ pubEnv.read /\ pubEnv.ref # <<>> /\ ~IsPullRef(pubEnv.ref)
PublisherErrors == {k \in 1..Len(stderr) : stderr[k].line = 284}
PublisherWarnings == {k \in 1..Len(stderr) : stderr[k].line = 271}

\* C13: when the ref does not match refs/pull/<number>/merge the publisher
\* never calls the comment sink, nothing is posted, and the run ends with exit
\* code 0; a publisher that got as far as the ref (its token and repository
\* are set) reports no error: it logs the warning of line 271 and returns.
C13_NoNumberNoPost ==
    PublishedOffPullRequest =>
        /\ sinkCalls = 0
        /\ Calls("comment") = {}
        /\ comments = <<>>
        /\ exitCode = 0
        /\ (pubEnv.token /\ pubEnv.repo) =>
               /\ PublisherErrors = {}
               /\ PublisherWarnings = {Len(stderr)}

\* A rendered review on a branch push: nothing posted, a warning logged.
C13_Witness ==
    /\ PublishedOffPullRequest
    /\ pubEnv.token
    /\ pubEnv.repo
    /\ outcome = "reviewed"
    /\ sinkCalls = 0
    /\ stderr[Len(stderr)] = Logged("warn", 271, "no_pr_number")

\* The publisher has run and failed: no token, no repository or ref, or a
\* comment the sink did not take.
SinkRejected == sinkCalls >= 1 /\ comments = <<>>
PublishFailed ==
    /\ Ended
    /\ pubEnv.read
    /\ (~pubEnv.token \/ ~pubEnv.repo \/ pubEnv.ref = <<>> \/ SinkRejected)

\* C14: a publishing failure (token missing, repository or ref missing, the
\* sink rejecting the comment) is logged by the publisher, once, as the error
\* of line 284, and goes no further: the caller's catch is not entered for it,
\* the publisher is not called again, the sink is called at most once, and the
\* run ends as it would have, with exit code 0.
C14_PublishFailureIsSwallowed ==
    /\ err # "publish"
    /\ outcome # "crashed"
    /\ PublishFailed =>
           /\ PublisherErrors = {Len(stderr)}
           /\ stderr[Len(stderr)].level = "error"
           /\ stderr[Len(stderr)].what =
                  IF ~pubEnv.token THEN "no_token"
                  ELSE IF ~pubEnv.repo \/ pubEnv.ref = <<>> THEN "no_repo_or_ref" ELSE "sink"
           /\ PublisherWarnings = {}
           /\ sinkCalls <= 1
           /\ comments = <<>>
           /\ exitCode = 0
           /\ outcome = EndOf(postSite)
           /\ postSite \in {"review", "parse_fail"} => err = "none"

\* The sink rejected a rendered review: logged, not retried, exit code 0.
C14_Witness ==
    /\ PublishFailed
    /\ SinkRejected
    /\ outcome = "reviewed"
    /\ sinkCalls = 1
    /\ stderr[Len(stderr)] = Logged("error", 284, "sink")
    /\ exitCode = 0

\* The git command that ran last.
LastExec == IF execs = <<>> THEN "none" ELSE execs[Len(execs)]
\* A per-commit diff failed and was caught (lines 84 and 97).
DiffFailureLogged == \E k \in 1..Len(stderr) : stderr[k].line \in {84, 97}
NothingPublished ==
    /\ Calls("ai") = {}
    /\ Calls("comment") = {}
    /\ sinkCalls = 0
    /\ comments = <<>>

\* C15 as stated: the process ends with exit code 1 only when a history
\* fetch, the resolution of HEAD or the metadata lookup of HEAD fails, and
\* then without AI call or comment.
C15_ExitOneOnlyOnHeadFailure ==
    exitCode = 1 =>
        /\ LastExec \in {"fetch", "rev-parse HEAD", "log HEAD"}
        /\ NothingPublished

\* C15, amended: the process ends with exit code 1 exactly when a command of
\* the outer try fails that has no catch of its own: a history fetch, the
\* resolution of HEAD, the metadata lookup of HEAD, or the metadata lookup of
\* the second-to-last commit. The failure is logged, and there is no AI call,
\* no comment and no artifact. A HEAD~1 or HEAD~2 that does not resolve and a
\* per-commit diff that fails never end the run with 1.
C15_ExitOneOnlyOnGitFailure ==
    /\ exitCode \in {NoExit, 0, 1}
    /\ exitCode = 1 <=> outcome = "git_failure"
    /\ exitCode = 1 =>
           /\ LastExec \in {"fetch", "rev-parse HEAD", "log HEAD", "log HEAD~1"}
           /\ stderr = <<GitFailureLogged>>
           /\ NothingPublished
           /\ artifact = NoArtifact
           /\ pubEnv = NoEnv
    /\ DiffFailureLogged => exitCode # 1
    /\ (\E k \in 1..Len(execs) : execs[k] \in {"diff HEAD", "diff HEAD~1"}) => exitCode # 1

\* The metadata lookup of the second-to-last commit failed: exit code 1.
C15_Witness ==
    /\ Ended
    /\ exitCode = 1
    /\ LastExec = "log HEAD~1"
    /\ Len(commitDetails) = 1
    /\ NothingPublished

\* The commits are resolved and described, the names of the block in scope.
ResolverDone == pc \in {"diffLatest", "diffSecond", "assemble"}
ResolverRan == ResolverDone \/ (pc \notin GitPcs /\ outcome # "git_failure")
SingleCommit == secondToLastCommitSha \in {"", latestCommitSha}
IsHeader(tok, which) == tok.t = which /\ tok.v.kind = "commit"

\* C16: the resolver yields one CommitRef or two, the first marked latest:
\* one when HEAD~1 does not resolve or resolves to the hash of HEAD, two (the
\* second marked not latest) otherwise; with one commit no diff is asked for
\* or produced for a second one, and the block holds at most the diff of the
\* latest.
C16_OneOrTwoCommitRefs ==
    /\ Len(commitDetails) <= 2
    /\ \A k \in 1..Len(commitDetails) : commitDetails[k].isLatest <=> k = 1
    /\ ResolverRan => Len(commitDetails) \in {1, 2}
    /\ ResolverDone =>
           /\ commitDetails[1] = CommitRef(latestCommitSha, TRUE)
           /\ SingleCommit => Len(commitDetails) = 1
           /\ ~SingleCommit =>
                  /\ Len(commitDetails) = 2
                  /\ commitDetails[2] = CommitRef(secondToLastCommitSha, FALSE)
                  /\ commitDetails[2].hash # commitDetails[1].hash
    /\ (ResolverRan /\ Len(commitDetails) = 1) =>
           /\ \A k \in 1..Len(execs) : execs[k] \notin {"log HEAD~1", "diff HEAD~1"}
           /\ diffForSecondToLastCommit = <<>>
           /\ \A k \in 1..Len(diff) : ~IsHeader(diff[k], "second")
           /\ Cardinality({k \in 1..Len(diff) : IsHeader(diff[k], "latest")}) <= 1

\* HEAD~1 resolved to the hash of HEAD: one CommitRef, one diff.
C16_Witness ==
    /\ pc = "assemble"
    /\ secondToLastCommitSha = latestCommitSha
    /\ Len(commitDetails) = 1
    /\ diffForLatestCommit # <<>>

\* The comment handed to the publisher is a rendered review; its issue blocks
\* follow the two heading tokens.
ReviewRendered == postSite = "review"
BlockOf(k) == postArg[2 + k].v.issues
\* The range of the k-th issue of the response, located anew in the tree.
RangeOf(k) ==
    matchSnippetInFile(resolve(stringOrEmpty(parsed.issues[k].file)),
                       parsed.issues[k].code_snippet)

\* C17: in the rendered comment the file reference of an issue carries a line
\* location exactly when a range was matched for the issue in the working
\* tree, and the location is that range, start and end; otherwise it is the
\* file path alone. The line the AI declared is never shown: not in place of
\* a range that is missing, not beside one that is there.
C17_OnlyMatchedRangeShown ==
    ReviewRendered =>
        /\ Len(postArg) = IF Len(parsed.issues) = 0 THEN 4 ELSE Len(parsed.issues) + 4
        /\ \A k \in 1..Len(parsed.issues) :
               /\ postArg[2 + k].t = "details"
               /\ Len(BlockOf(k)) = 2
               /\ BlockOf(k)[1].file = stringOrEmpty(parsed.issues[k].file)
               /\ BlockOf(k)[2] = parsed.issues[k].code_snippet
               /\ RangeOf(k).kind = "range" <=> BlockOf(k)[1].L # <<>>
               /\ RangeOf(k).kind = "range" =>
                      BlockOf(k)[1].L = <<decimal(RangeOf(k).start), decimal(RangeOf(k).end)>>
               /\ parsed.issues[k].line # NoLine =>
                      \A m \in 1..Len(BlockOf(k)[1].L) :
                          BlockOf(k)[1].L[m] # decimal(parsed.issues[k].line)

\* A review of two issues that both declare a line: one with a matched range,
\* one without.
C17_Witness ==
    /\ ReviewRendered
    /\ Ended
    /\ comments = <<postArg>>
    /\ Len(parsed.issues) = 2
    /\ parsed.issues[1].line = DeclaredLine
    /\ parsed.issues[2].line = DeclaredLine
    /\ BlockOf(1)[1].L = <<decimal(1), decimal(1)>>
    /\ BlockOf(2)[1].L = <<>>

\* ============================================================== example.py
\* os.path.exists and os.path.isfile on the tree.
exists(path) == path \in DOMAIN fs /\ fs[path].kind # "missing"
isfile(path) == path \in DOMAIN fs /\ fs[path].kind = "file"

\* The exception classes read_file meets, each with the classes it derives
\* from (itself included).
Bases(e) ==
    IF e = "FileNotFoundError" THEN {"FileNotFoundError", "OSError", "Exception"}
    ELSE IF e = "PermissionError" THEN {"PermissionError", "OSError", "Exception"}
    ELSE IF e = "OSError" THEN {"OSError", "Exception"}
    ELSE IF e = "UnicodeDecodeError" THEN {"UnicodeDecodeError", "ValueError", "Exception"}
    ELSE IF e = "ValueError" THEN {"ValueError", "Exception"}
    ELSE {}
OpenOutcomes == {"none", "PermissionError", "OSError", "UnicodeDecodeError"}

\* A call of print: the message, and the path and the number it holds.
Said(what, path, n) == [what |-> what, path |-> path, n |-> n]
UsageLine == Said("Usage: python example.py <filename>", "", 0)
WhereLine == Said("Where <filename> is the path to the text file to count words from", "", 0)

\* Lines 18-24, the body of the try: what it raises, "none" if it returns.
tryOf(path) ==
    IF ~exists(path) THEN "FileNotFoundError"
    ELSE IF ~isfile(path) THEN "ValueError"
    ELSE openRaises

\* What a call of read_file gives: the value returned, what was printed, the
\* paths opened, and the exception that left the function.
Returned(value, said, opens, exc) ==
    [value |-> value, said |-> said, opens |-> opens, exc |-> exc]
\* Line 23: open() is reached when both tests passed.
opensOf(path) == IF exists(path) /\ isfile(path) THEN <<path>> ELSE <<>>

\* A faulty read_file: the except Exception of line 31 is missing.
read_fileNarrow(path) ==
    LET e == tryOf(path) IN
    IF e = "none" THEN Returned(Str(fs[path].content), <<>>, opensOf(path), "none")
    ELSE IF "FileNotFoundError" \in Bases(e)
    THEN Returned(None, <<Said("Error: File not found", path, 0)>>, opensOf(path), "none")
    ELSE IF "PermissionError" \in Bases(e)
    THEN Returned(None, <<Said("Error: Permission denied for file", path, 0)>>, opensOf(path), "none")
    ELSE Returned(None, <<>>, opensOf(path), e)

\* Lines 7-33: read_file.
read_file(path) ==
    LET e == tryOf(path) IN
    IF e = "none" THEN Returned(Str(fs[path].content), <<>>, opensOf(path), "none")
    ELSE IF "FileNotFoundError" \in Bases(e)
    THEN Returned(None, <<Said("Error: File not found", path, 0)>>, opensOf(path), "none")
    ELSE IF "PermissionError" \in Bases(e)
    THEN Returned(None, <<Said("Error: Permission denied for file", path, 0)>>, opensOf(path), "none")
    ELSE IF "Exception" \in Bases(e)
    THEN Returned(None, <<Said("Error reading file", path, 0)>>, opensOf(path), "none")
    ELSE Returned(None, <<>>, opensOf(path), e)

\* str.split() without argument: the runs of characters that are not white
\* space; count_words counts them (lines 35-49).
isspace(c) == c \in {" ", "\n", "\t", "\r"}
count_words(text) ==
    IF text = <<>> THEN 0
    ELSE Cardinality({k \in 1..Len(text) :
                         ~isspace(text[k]) /\ (k = 1 \/ isspace(text[k - 1]))})

\* The command lines: no argument, the file, a path that names nothing.
ArgvSet == {<<"example.py">>, <<"example.py", TestPath>>, <<"example.py", "nowhere">>}

ExampleInit ==
    /\ ExampleStart
    /\ argv \in ArgvSet
    /\ openRaises \in OpenOutcomes
    /\ \E e \in {Missing, Directory} \cup {RegularFile(c) : c \in Strs(MaxTextLen)} :
           fs = [p \in {TestPath} |-> e]
    /\ mIn = [filePath |-> TestPath, codeSnippet |-> <<>>]
    /\ mOut = <<>>
    /\ NormIdle
    /\ RunIdle

\* Lines 56-57: no file name on the command line, the usage line is printed.
PrintUsage ==
    /\ xpc = "main"
    /\ Len(argv) < 2
    /\ printed' = Append(printed, UsageLine)
    /\ xpc' = "where"
    /\ UNCHANGED <<fs, mIn, mOut, nIn, nOut, runVars, argv, openRaises, filepath,
                   fileContent, opened, raised, status>>

\* Line 58: the second line of the usage.
PrintWhere ==
    /\ xpc = "where"
    /\ printed' = Append(printed, WhereLine)
    /\ xpc' = "exit"
    /\ UNCHANGED <<fs, mIn, mOut, nIn, nOut, runVars, argv, openRaises, filepath,
                   fileContent, opened, raised, status>>

\* Line 59: sys.exit(1).
ExitUsage ==
    /\ xpc = "exit"
    /\ status' = 1
    /\ xpc' = "done"
    /\ UNCHANGED <<fs, mIn, mOut, nIn, nOut, runVars, argv, openRaises, filepath,
                   fileContent, printed, opened, raised>>

\* Lines 61-62: content = read_file(sys.argv[1]). An exception that leaves
\* read_file leaves main() too and ends the program with status 1.
CallReadFile ==
    /\ xpc = "main"
    /\ Len(argv) >= 2
    /\ LET r == read_file(argv[2]) IN
           /\ filepath' = argv[2]
           /\ fileContent' = r.value
           /\ printed' = printed \o r.said
           /\ opened' = opened \o r.opens
           /\ raised' = r.exc
           /\ IF r.exc = "none"
              THEN xpc' = "report" /\ UNCHANGED status
              ELSE xpc' = "done" /\ status' = 1
    /\ UNCHANGED <<fs, mIn, mOut, nIn, nOut, runVars, argv, openRaises>>

\* Lines 63-67: the number of words, or the message that there is nothing to
\* count; main() returns and the program ends with status 0.
Report ==
    /\ xpc = "report"
    /\ printed' = Append(printed,
           IF ~fileContent.none /\ fileContent.text # <<>>
           THEN Said("Number of words in", filepath, count_words(fileContent.text))
           ELSE Said("No content to process.", "", 0))
    /\ status' = 0
    /\ xpc' = "done"
    /\ UNCHANGED <<fs, mIn, mOut, nIn, nOut, runVars, argv, openRaises, filepath,
                   fileContent, opened, raised>>

ExampleNext ==
    \/ PrintUsage
    \/ PrintWhere
    \/ ExitUsage
    \/ CallReadFile
    \/ Report

SpecExample == ExampleInit /\ [][ExampleNext]_vars

\* ------------------------------------------------------ claims on example.py
\* C18 as stated: when main() is called without a file name, the last message
\* printed before the program exits is the usage line, and the program exits
\* with status 1 without reading a file.
C18_UsageIsLastMessage ==
    (Len(argv) < 2 /\ xpc = "done") =>
        /\ printed # <<>>
        /\ printed[Len(printed)] = UsageLine
        /\ status = 1
        /\ opened = <<>>

\* read_file was called and main() has its result.
ReadFileReturned == xpc \in {"report", "done"} /\ Len(argv) >= 2

HeadTwoMissing ==
    /\ pc \in {"logLatest", "logSecond", "diffLatest", "diffSecond", "assemble"}
    /\ secondToLastCommitSha \notin {"", latestCommitSha}
    /\ thirdToLastCommitSha = ""
SecondDiffRun == \E k \in 1..Len(execs) : execs[k] = "diff HEAD~1"
SkipLogged == \E k \in 1..Len(stderr) : stderr[k] = Logged("warn", 94, "skip_second_diff")
SecondInBlock(d) == \E k \in 1..Len(d) : IsHeader(d[k], "second")

\* C20: when HEAD~1 resolved and HEAD~2 did not, git diff is never run for
\* the second-to-last commit and the block holds no diff of it; the skip is
\* logged (the warning of line 94) before the block is put together; and the
\* run does not abort: it goes on with the diff of the latest commit, to the
\* review when there is one and to the clean exit when there is none.
C20_NoParentNoSecondDiff ==
    /\ HeadTwoMissing =>
           /\ ~SecondDiffRun
           /\ diffForSecondToLastCommit = <<>>
           /\ exitCode # 1 \/ LastExec \in {"log HEAD", "log HEAD~1"}
           /\ pc = "assemble" =>
                  /\ SkipLogged
                  /\ Len(commitDetails) = 2
                  /\ ~SecondInBlock(concatDiffs)
                  /\ concatDiffs =
                         IF diffForLatestCommit = <<>> THEN <<>>
                         ELSE <<Header("latest", commitDetails[1])>>
                              \o diffForLatestCommit \o <<Newlines>>
    /\ SkipLogged =>
           /\ ~SecondDiffRun
           /\ ~SecondInBlock(diff)
           /\ Len(commitDetails) = 2
           /\ exitCode # 1
           /\ (Assembled /\ ~IsBlankText(diff)) => PastAssembly
           /\ (Ended /\ PastAssembly /\ model \in Recognized) => AICallIssued
    /\ SecondDiffRun => ~SkipLogged

\* Two commits, the second without a parent: the latest was reviewed.
C20_Witness ==
    /\ SkipLogged
    /\ Ended
    /\ outcome = "reviewed"
    /\ Len(commitDetails) = 2
    /\ ~SecondDiffRun
    /\ IsHeader(diff[1], "latest")

\* ---------------------------------------------- claims on the two sinks
\* The write of review_with_line_matches.json failed (line 340 raised).
ArtifactWriteFailed == err = "write"

\* C21 as stated: the artifact and the comment are independent sinks. A
\* failed write of the artifact does not keep the rendered review from being
\* handed to the publisher, and a failed post of the review leaves the
\* artifact written.
C21_SinksIndependent ==
    /\ (Ended /\ ArtifactWriteFailed) =>
           /\ postSite = "review"
           /\ postArg = commentBody
    /\ (PublishFailed /\ postSite = "review") => artifact = Object(processed)

====
